---- MODULE Spec2Model ----
(***************************************************************************)
(* Model of src/src/lib/discord-bot.ts: the Discord notification           *)
(* dispatcher (session handle, readiness flag, in-memory message queue,    *)
(* the drain pass processMessageQueue with its timers, and the public      *)
(* entry points sendDirectMessage / forceProcessQueue).                    *)
(*                                                                         *)
(* JavaScript runs one callback at a time, so every action below is one    *)
(* synchronous run of a handler from its entry (or from the resumption of  *)
(* an await) to its next await or return.  Time is counted in ticks of     *)
(* MsPerTick milliseconds; every delay in the source is a multiple of it.  *)
(* Tick k stands for the MsPerTick milliseconds from k * MsPerTick on: an  *)
(* event at 6500 ms and an event at 6900 ms both happen in tick 6, in     *)
(* that order.  A timer with `left` ticks to go comes due somewhere in    *)
(* the tick `left` ticks ahead; with left = 0 it comes due in the present *)
(* tick and runs before the clock advances further, so until it has run   *)
(* its delay has not passed.  The clock advances one tick at a time while *)
(* a timer is armed, and any handler can run in any tick.  How far apart  *)
(* two events of neighbouring ticks are is not in the state; where a      *)
(* property depends on it and the order of the steps does not settle it,  *)
(* both answers are outcomes of the step.                                 *)
(***************************************************************************)
EXTENDS Naturals, Sequences, FiniteSets, Bags

\* ------------------------------------------------------------------ bounds
MaxCalls == 2         \* number of calls of the exported entry points in a run
MaxReady == 1         \* number of 'ready' events the client emits in a run
MaxFails == 5         \* number of send attempts that fail in a run of SoloCalls calls
MaxPairFails == 2     \* the same, in a run of MaxCalls calls
SoloCalls == 1        \* number of calls in the runs with MaxFails failing sends
MaxClockedFails == 0  \* the same, in a run of MaxCalls calls with the send timeouts
MaxLiveFails == 0     \* the same, in a run of MaxCalls calls checked for progress
MaxLiveSoloFails == 4 \* the same, in a run of SoloCalls calls checked for progress
MaxReasonLen == 2     \* length of the reason text given to the composer
MaxNowSteps == 2      \* latest Date.now() in the runs that vary the embed,
                      \* in half seconds
MaxRunNowSteps == 0   \* the same, in all other runs
ComposeCalls == 1     \* number of calls in the runs that vary the embed
MaxComposeFails == 1  \* failing sends in the runs that vary the embed

\* ------------------------------------------------------- program constants
MaxRetries == 3             \* discord-bot.ts:65   message.retries < 3
BackoffBaseMs == 5000       \* discord-bot.ts:69   5000 * message.retries
PacingDelayMs == 1000       \* discord-bot.ts:74   setTimeout(..., 1000)
GraceDelayMs == 1000        \* discord-bot.ts:170  setTimeout(resolve, 1000)
DrainIntervalMs == 30000    \* discord-bot.ts:33   setInterval(..., 30000)
MsPerSecond == 1000         \* discord-bot.ts:82   Date.now() / 1000
FetchTimeoutMs == 10000     \* discord-bot.ts:135  'User fetch timeout'
SendTimeoutMs == 10000      \* discord-bot.ts:146  'Message send timeout'

MsPerTick == PacingDelayMs
Ticks(ms) == ms \div MsPerTick

Ids == 1..MaxCalls

\* The causes sendDirectMessageInternal tells apart when it logs a failure
\* (discord-bot.ts:151-162); all of them are rethrown.
FetchCauses == {"UserFetchTimeout", "UserNotFound", "UnknownUser", "Transport"}
SendCauses == {"MessageSendTimeout", "CannotSendToUser", "MissingPermissions", "Transport"}
TimeoutCauses == {"UserFetchTimeout", "MessageSendTimeout"}

VARIABLES
    token,          \* process.env.DISCORD_BOT_TOKEN is set
    client,         \* the module-level client is non-null
    sessions,       \* number of Client objects constructed
    logins,         \* number of client.login calls
    handlers,       \* number of times the three event handlers were registered
    login,          \* the promise of client.login: "none", "pending" (not
                    \* rejected) or "rejected"
    isReady,        \* the module-level isReady flag
    readyEvents,    \* number of 'ready' events emitted so far
    messageQueue,   \* the module-level queue: records [id, retries]
    passes,         \* drain passes awaiting their send: [id, retries, leg]
    timers,         \* bag of pending setTimeout drain triggers [kind, delay, left, id]
    intervals,      \* bag of ticks left of each armed setInterval
    pc,             \* per call of sendDirectMessage or initializeDiscordBot:
                    \* where it stands
    graceLeft,      \* per call: ticks left of its grace timer
    ret,            \* per call: what the returned promise settled to
    attempts,       \* per notification: send attempts started so far
    enq,            \* per notification: how it entered the queue
    delivered,      \* ids in the order their send completed successfully
    abandoned,      \* ids given up after the last retry
    fault,          \* an error escaped a handler of this module
    embed,          \* the embed composed last, with the arguments and the
                    \* clock it was composed from (<<>> before the first)
    budget,         \* what the environment does in this run: [calls, fails,
                    \* clocked, args, nows]
    hist            \* history kept for the ordering property ([on, order])
                    \* and for the pacing property ([paced, age, young,
                    \* close, outside]); constant when on and paced are FALSE

vars == <<token, client, sessions, logins, handlers, login, isReady, readyEvents,
          messageQueue, passes, timers, intervals, pc, graceLeft, ret,
          attempts, enq, delivered, abandoned, fault, embed, budget, hist>>

connVars == <<client, sessions, logins, handlers, login>>

\* discord-bot.ts:4-6: the module-level state when the module is loaded, with
\* no call made, no timer armed and no send in flight.
InitProgram ==
    /\ token \in BOOLEAN
    /\ client = FALSE
    /\ sessions = 0
    /\ logins = 0
    /\ handlers = 0
    /\ login = "none"
    /\ isReady = FALSE
    /\ readyEvents = 0
    /\ messageQueue = <<>>
    /\ passes = {}
    /\ timers = EmptyBag
    /\ intervals = EmptyBag
    /\ pc = [i \in Ids |-> "new"]
    /\ graceLeft = [i \in Ids |-> 0]
    /\ ret = [i \in Ids |-> "pending"]
    /\ attempts = [i \in Ids |-> 0]
    /\ enq = [i \in Ids |-> "no"]
    /\ delivered = <<>>
    /\ abandoned = {}
    /\ fault = FALSE
    /\ embed = <<>>

\* ------------------------------------------- the embed (lines 82-129)
Statuses == {"approved", "denied"}
ReasonChars == {"a", "b"}

RECURSIVE Texts(_)
Texts(n) ==
    IF n = 0 THEN {<<>>}
    ELSE Texts(n - 1) \cup
         {Append(t, c) : t \in {u \in Texts(n - 1) : Len(u) = n - 1}, c \in ReasonChars}

\* discord-bot.ts:77: reason?: string -- left out (given = FALSE) or a string,
\* the empty string included.
Reasons ==
    {[given |-> FALSE, text |-> <<>>]} \cup
    {[given |-> TRUE, text |-> t] : t \in Texts(MaxReasonLen)}

\* discord-bot.ts:112: if (reason) -- undefined and "" are both falsy.
ReasonTruthy(reason) == reason.given /\ Len(reason.text) > 0

\* discord-bot.ts:82, 122: the values of Date.now(), half a second apart.
NowsUpTo(n) == {k * (MsPerSecond \div 2) : k \in 0..n}
Nows == NowsUpTo(MaxNowSteps)
RunNows == NowsUpTo(MaxRunNowSteps)

\* discord-bot.ts:82: Math.floor(Date.now() / 1000)
Timestamp(now) == now \div MsPerSecond

\* discord-bot.ts:86
EmbedColor(status) == IF status = "approved" THEN "#00FF00" ELSE "#FF0000"

\* discord-bot.ts:92-96
EmbedDescription(status) ==
    IF status = "approved" THEN "... has been **ACCEPTED**! ..."
    ELSE "... has been **DENIED** at this time. ..."

\* discord-bot.ts:97-110
BaseFields(status, now) ==
    <<[name |-> "Application Status",
       value |-> <<IF status = "approved" THEN "Accepted" ELSE "Denied">>,
       inline |-> "true"],
      [name |-> "Decision Date",
       value |-> <<"<t:", Timestamp(now), ":F>">>,
       inline |-> "true"]>>

\* The two labels the wrong way round.
ReasonFieldNameSwapped(status) ==
    IF status = "approved" THEN "Reason" ELSE "Staff Note"

\* discord-bot.ts:114
ReasonFieldName(status) ==
    IF status = "approved" THEN "Staff Note" ELSE "Reason"

\* discord-bot.ts:112-118
ReasonFields(status, reason) ==
    IF ReasonTruthy(reason)
    THEN <<[name |-> ReasonFieldName(status), value |-> reason.text,
            inline |-> "false"]>>
    ELSE <<>>

\* discord-bot.ts:126-129
InfoFields(status) ==
    IF status = "approved"
    THEN <<[name |-> "Important Information",
            value |-> <<"Please make sure to read our server rules ...">>,
            inline |-> "unset"]>>
    ELSE <<>>

\* discord-bot.ts:85-129: the EmbedBuilder calls, in their order.  `now` is
\* the clock read at line 82, `stamp` the clock read by setTimestamp() at
\* line 122.
CreateEmbed(status, reason, now, stamp) ==
    [color       |-> EmbedColor(status),
     author      |-> "serverName",
     title       |-> "Whitelist Application Response",
     description |-> EmbedDescription(status),
     fields      |-> BaseFields(status, now) \o ReasonFields(status, reason)
                        \o InfoFields(status),
     footer      |-> "footerText",
     timestamp   |-> stamp]

\* discord-bot.ts:166: the status and the reason a call is made with.  The
\* queued object carries them (lines 175, 183); here they are looked up by the
\* call's number in budget.args.
Args == [status : Statuses, reason : Reasons]
DefaultArgs == [status |-> "approved", reason |-> [given |-> FALSE, text |-> <<>>]]

\* What the environment does in a run: the number of calls, the number of
\* failing sends, whether the send timeouts are timers, the arguments of
\* every call and the values Date.now() returns.
Run(calls, fails, clocked) ==
    [calls |-> calls, fails |-> fails, clocked |-> clocked,
     args |-> [i \in Ids |-> DefaultArgs], nows |-> RunNows]

\* The history at load.  `age` is the number of ticks since the last send
\* started by a setTimeout callback of a pass, counted up to the first value
\* past the pacing delay, which is also its value before the first start.
HistOff == [on |-> FALSE, paced |-> FALSE, order |-> <<>>,
            age |-> Ticks(PacingDelayMs) + 1, young |-> 0,
            close |-> FALSE, outside |-> FALSE]
HistOn == [HistOff EXCEPT !.on = TRUE]
HistPaced == [HistOff EXCEPT !.paced = TRUE]

\* The runs: SoloCalls calls and up to MaxFails failing sends, or MaxCalls
\* calls and up to MaxPairFails failing sends.
Init ==
    /\ InitProgram
    /\ budget \in {Run(SoloCalls, MaxFails, FALSE),
                   Run(MaxCalls, MaxPairFails, FALSE)}
    /\ hist = HistOff

\* The same program, with the history of the queue order kept.
InitTrace ==
    /\ InitProgram
    /\ budget = Run(MaxCalls, MaxPairFails, FALSE)
    /\ hist = HistOn

\* The same program, with the history of the timer-started sends kept.
InitPaced ==
    /\ InitProgram
    /\ budget = Run(MaxCalls, MaxPairFails, FALSE)
    /\ hist = HistPaced

\* The runs checked for progress.
InitLive ==
    /\ InitProgram
    /\ budget \in {Run(SoloCalls, MaxLiveSoloFails, FALSE),
                   Run(MaxCalls, MaxLiveFails, FALSE)}
    /\ hist = HistOff

\* The same program, with the two 10000 ms timeouts of every send as timers
\* (budget.clocked).  Where budget.clocked is false a timeout is one of the
\* causes a send may fail with at any time.
InitClocked ==
    /\ InitProgram
    /\ budget \in {Run(SoloCalls, MaxFails, TRUE),
                   Run(MaxCalls, MaxClockedFails, TRUE)}
    /\ hist = HistOff

\* The same program, with every status and reason for the calls that are
\* made and Date.now() drawn from Nows.
InitCompose ==
    /\ InitProgram
    /\ budget \in {[Run(ComposeCalls, MaxComposeFails, FALSE)
                        EXCEPT !.args = a, !.nows = Nows] :
                   a \in {f \in [Ids -> Args] :
                            \A i \in Ids : i > ComposeCalls => f[i] = DefaultArgs}}
    /\ hist = HistOff

\* ------------------------------------------------------------ small helpers
One(e) == SetToBag({e})

QueueIds == {messageQueue[k].id : k \in 1..Len(messageQueue)}
PassIds == {p.id : p \in passes}

\* discord-bot.ts:175, 183: the object sendDirectMessage pushes.  Its status
\* and reason are budget.args[i].
Item(i) == [id |-> i, retries |-> 0]

\* Mutation of Enqueue: unshift in place of push.
EnqueueAtHead(queue, item) == <<item>> \o queue

\* discord-bot.ts:175, 183: messageQueue.push
Enqueue(queue, item) == Append(queue, item)

InFlight(i) == IF i \in PassIds \/ pc[i] \in {"fetch", "send"} THEN 1 ELSE 0
Succeeded(i) == IF \E k \in 1..Len(delivered) : delivered[k] = i THEN 1 ELSE 0

\* Send attempts of notification i that have failed so far.
Failures(i) == attempts[i] - InFlight(i) - Succeeded(i)

RECURSIVE SumFailures(_)
SumFailures(S) ==
    IF S = {} THEN 0
    ELSE LET i == CHOOSE x \in S : TRUE IN Failures(i) + SumFailures(S \ {i})

\* The environment lets one more send attempt fail.
MayFail == SumFailures(Ids) < budget.fails

\* hist.order: notification i enters the queue for the first time.
HistEnqueue(i) ==
    hist' = IF hist.on THEN [hist EXCEPT !.order = Append(@, i)] ELSE hist

\* -------------------------------------------------- initializeDiscordBot
\* Mutation of InitializeCreates: the `if (client) return` guard is missing.
InitializeCreatesUnguarded == token

\* discord-bot.ts:9-17: neither early return of initializeDiscordBot is taken.
InitializeCreates == token /\ ~client

InitializeDiscordBot ==
    IF InitializeCreates
    THEN /\ client' = TRUE
         /\ sessions' = sessions + 1
         /\ handlers' = handlers + 1
         /\ logins' = logins + 1
         /\ login' = "pending"
    ELSE UNCHANGED connVars

\* ---------------------------------------------------- processMessageQueue
\* Mutation of DrainIsNoop: the early return tests the queue length only.
DrainIsNoopWhenEmpty(ready, queue) == Len(queue) = 0

\* discord-bot.ts:53: the early return of a drain pass.
DrainIsNoop(ready, queue) == ~ready \/ Len(queue) = 0

\* Mutation of ShouldRetry: the ceiling itself is retried once more.
ShouldRetryInclusive(retries) == retries <= MaxRetries

\* discord-bot.ts:65: the retry test of the catch block.
ShouldRetry(retries) == retries < MaxRetries

\* Mutation of BackoffDelay: the delay is computed from the count before its
\* increment.
BackoffDelayBeforeIncrement(retries) == BackoffBaseMs * (retries - 1)

\* discord-bot.ts:69: the delay of the backoff drain, from the incremented count.
BackoffDelay(retries) == BackoffBaseMs * retries

\* A timer as setTimeout(callback, ms) arms it.  `id` names the message whose
\* failure armed a backoff timer (0 for the pacing timer); the callback itself
\* does not use it.
Timer(kind, ms, id) == [kind |-> kind, delay |-> ms, left |-> Ticks(ms), id |-> id]

\* The attempt a timeout belongs to: the queued attempt made at `retries`, or
\* the immediate attempt of a call.
PassKey(id, retries) == 10 * id + retries
ImmKey(i) == 10 * i + MaxRetries + 1

\* discord-bot.ts:133-136, 144-147: the setTimeout a leg races against.
LegTimers(leg, key) ==
    IF budget.clocked
    THEN One(Timer(leg, IF leg = "fetch" THEN FetchTimeoutMs ELSE SendTimeoutMs, key))
    ELSE EmptyBag

AddTimers(base, extra) == IF extra = EmptyBag THEN base ELSE base (+) extra

\* The timeout of a leg that has settled: its callback rejects a promise
\* that is settled already, which does nothing, so the timer is taken out of
\* the bag when the leg settles.
Settled(base, leg, key) ==
    IF budget.clocked
    THEN [t \in {u \in BagToSet(base) : ~(u.kind = leg /\ u.id = key)} |-> base[t]]
    ELSE base

\* The timers armed by a drain pass up to its await.
StartedTimers(ready) ==
    IF DrainIsNoop(ready, messageQueue) THEN EmptyBag
    ELSE LegTimers("fetch", PassKey(Head(messageQueue).id, Head(messageQueue).retries))

\* The backoff delay of message m's last failure has not yet passed: among
\* the timers `armed`, the one that failure armed (discord-bot.ts:69) has not
\* run yet.  A timer runs when its delay has passed, whatever is left of the
\* tick it comes due in.
BackoffRunning(m, armed) ==
    /\ m.retries > 0
    /\ \E t \in BagToSet(armed) :
          /\ t.kind = "backoff" /\ t.id = m.id
          /\ t.delay = BackoffDelay(m.retries)

\* discord-bot.ts:82-129: sendDirectMessageInternal composes the embed of
\* notification i from its status, its reason and two readings of the clock
\* (lines 82 and 122, the second not before the first), before its first
\* await (line 132).
ComposeEmbed(i) ==
    \E now \in budget.nows : \E stamp \in {n \in budget.nows : n >= now} :
        embed' = <<[status |-> budget.args[i].status,
                    reason |-> budget.args[i].reason,
                    now |-> now,
                    stamp |-> stamp,
                    payload |-> CreateEmbed(budget.args[i].status,
                                            budget.args[i].reason, now, stamp)]>>

\* discord-bot.ts:52-61: a drain pass up to its await (the composing of the
\* embed included).  `ready` is the flag as
\* the calling handler has just left it.  The caller adds StartedTimers.
ProcessMessageQueue(ready) ==
    IF DrainIsNoop(ready, messageQueue)
    THEN UNCHANGED <<messageQueue, passes, attempts, embed>>
    ELSE LET m == Head(messageQueue) IN
         /\ messageQueue' = Tail(messageQueue)
         /\ passes' = passes \cup {[id |-> m.id, retries |-> m.retries,
                                    leg |-> "fetch"]}
         /\ attempts' = [attempts EXCEPT ![m.id] = @ + 1]
         /\ ComposeEmbed(m.id)

\* The failed message is not put back.
ReinsertDropped(m, queue) == queue

\* Mutation of Reinsert: the failed message is put back twice.
ReinsertTwice(m, queue) ==
    <<[id |-> m.id, retries |-> m.retries + 1],
      [id |-> m.id, retries |-> m.retries + 1]>> \o queue

\* discord-bot.ts:66-67: the failed message goes back with its count incremented.
Reinsert(m, queue) == <<[id |-> m.id, retries |-> m.retries + 1]>> \o queue

\* discord-bot.ts:74: the follow-up drain armed at the end of every pass.
PacingTimer == Timer("pace", PacingDelayMs, 0)

\* The pacing history is kept on: it is asked for, and neither has a
\* violation been recorded nor has forceProcessQueue or the interval
\* started a send (from either on, the fields stay as HistStopped leaves them).
Pacing == hist.paced /\ ~hist.close /\ ~hist.outside

HistStopped(h) == [h EXCEPT !.age = Ticks(PacingDelayMs) + 1, !.young = 0]

\* hist.close: two sends were started by setTimeout callbacks of the passes
\* less than PacingDelayMs apart.
HistClose == HistStopped([hist EXCEPT !.close = TRUE])

\* A send is started by a setTimeout callback PacingDelayMs or more after
\* the last such start: the count of ticks starts again.
HistRestart == [hist EXCEPT !.age = 0, !.young = 0]

\* The 1000 ms timers of line 74 that come due in the present tick.
DuePaces(armed) == CopiesIn([PacingTimer EXCEPT !.left = 0], armed)

\* hist.young: line 74 arms a 1000 ms timer in the tick of the last
\* timer-started send and after it; the timer runs PacingDelayMs after that
\* start or later.  (Timers of equal delay run in the order they were armed,
\* so the 1000 ms timers armed before that start run before these.)
HistPaceArmed ==
    hist' = IF Pacing /\ hist.age = 0 THEN [hist EXCEPT !.young = @ + 1] ELSE hist

\* The setTimeout callback t runs a drain pass, which starts a send or not.
\*  - age below the pacing delay: the last timer-started send was started in
\*    this tick, less than PacingDelayMs ago;
\*  - age past the pacing delay: it was started more than PacingDelayMs ago;
\*  - age equal to the pacing delay: it was started in the tick before.
\*    A 1000 ms timer armed after that start runs PacingDelayMs after it or
\*    later.  Any other timer was armed before that start, in the same tick
\*    (the 1000 ms timers still to run before those armed after it) or ticks
\*    earlier (the backoff timers): where in its tick it was armed, and how
\*    late after its delay the event loop runs it, is not in the state, so it
\*    runs less than PacingDelayMs after the start or not (a timer armed in
\*    the millisecond of the start runs PacingDelayMs after it or later).
HistTimerStart(t, started) ==
    IF ~Pacing THEN hist' = hist
    ELSE IF hist.age > Ticks(PacingDelayMs)
    THEN hist' = IF started THEN HistRestart ELSE hist
    ELSE IF hist.age < Ticks(PacingDelayMs)
    THEN hist' = IF started THEN HistClose ELSE hist
    ELSE IF t.kind = "pace" /\ DuePaces(timers) <= hist.young
    THEN hist' = IF started THEN HistRestart ELSE HistStopped(hist)
    ELSE IF started THEN hist' \in {HistClose, HistRestart} ELSE hist' = hist

\* hist.outside: a call of forceProcessQueue or the interval callback has
\* started a send.
HistOutside(started) ==
    hist' = IF hist.paced /\ started
            THEN HistStopped([hist EXCEPT !.outside = TRUE]) ELSE hist

\* hist.age: one more tick has passed since the last timer-started send.
HistTick ==
    hist' = IF ~Pacing \/ hist.age > Ticks(PacingDelayMs) THEN hist
            ELSE IF hist.age < Ticks(PacingDelayMs)
            THEN [hist EXCEPT !.age = @ + 1]
            ELSE HistStopped(hist)

\* Mutation of DrainCatches: the await of a pass is not inside a try block.
DrainDoesNotCatch == FALSE

\* discord-bot.ts:60-63: the try/catch around the awaited send of a pass.
DrainCatches == TRUE

\* discord-bot.ts:131-148: the first leg (users.fetch) of a pass resolves.
PassFetchOk(p) ==
    /\ p \in passes
    /\ p.leg = "fetch"
    /\ passes' = (passes \ {p}) \cup {[p EXCEPT !.leg = "send"]}
    /\ timers' = AddTimers(Settled(timers, "fetch", PassKey(p.id, p.retries)),
                            LegTimers("send", PassKey(p.id, p.retries)))
    /\ UNCHANGED <<embed, budget, hist, token, connVars, isReady, readyEvents,
                   messageQueue, intervals, pc, graceLeft, ret, attempts, enq,
                   delivered, abandoned, fault>>

\* discord-bot.ts:61-62, 74: the send of a pass resolved.
PassOk(p) ==
    /\ p \in passes
    /\ p.leg = "send"
    /\ passes' = passes \ {p}
    /\ delivered' = Append(delivered, p.id)
    /\ timers' = Settled(timers, "send", PassKey(p.id, p.retries)) (+) One(PacingTimer)
    /\ HistPaceArmed
    /\ UNCHANGED <<embed, budget, token, connVars, isReady, readyEvents, messageQueue,
                   intervals, pc, graceLeft, ret, attempts, enq, abandoned, fault>>

\* discord-bot.ts:63-74: the catch block of a pass and the re-trigger after it.
\* `base` is the bag of timers the new ones are added to.
PassRejected(p, base) ==
    /\ passes' = passes \ {p}
    /\ IF ~DrainCatches
       THEN /\ fault' = TRUE
            /\ timers' = base
            /\ UNCHANGED <<messageQueue, abandoned, hist>>
       ELSE /\ fault' = fault
            /\ HistPaceArmed
            /\ IF ShouldRetry(p.retries)
               THEN /\ messageQueue' = Reinsert(p, messageQueue)
                    /\ timers' = base (+) One(Timer("backoff", BackoffDelay(p.retries + 1), p.id))
                                      (+) One(PacingTimer)
                    /\ abandoned' = abandoned
               ELSE /\ abandoned' = abandoned \cup {p.id}
                    /\ timers' = base (+) One(PacingTimer)
                    /\ messageQueue' = messageQueue
    /\ UNCHANGED <<embed, budget, token, connVars, isReady, readyEvents,
                   intervals, pc, graceLeft, ret, attempts, enq, delivered>>

\* The causes the awaited legs reject with by themselves; where the timeouts
\* are timers they are not among them.
MayFailWith(leg, cause) ==
    /\ cause \in (IF leg = "fetch" THEN FetchCauses ELSE SendCauses)
    /\ budget.clocked => cause \notin TimeoutCauses
    /\ MayFail

\* The catch block of a pass, giving up at once when the recipient is unknown.
PassFailUnknownUserGivesUp(p, cause) ==
    /\ p \in passes
    /\ MayFailWith(p.leg, cause)
    /\ IF cause # "UnknownUser"
       THEN PassRejected(p, Settled(timers, p.leg, PassKey(p.id, p.retries)))
       ELSE /\ passes' = passes \ {p}
            /\ abandoned' = abandoned \cup {p.id}
            /\ timers' = timers (+) One(PacingTimer)
            /\ HistPaceArmed
            /\ UNCHANGED <<embed, budget, token, connVars, isReady,
                           readyEvents, intervals, pc, graceLeft, ret, attempts,
                           enq, delivered, messageQueue, fault>>

\* discord-bot.ts:63-74: the send of a pass rejected with `cause`.
PassFail(p, cause) ==
    /\ p \in passes
    /\ MayFailWith(p.leg, cause)
    /\ PassRejected(p, Settled(timers, p.leg, PassKey(p.id, p.retries)))

\* discord-bot.ts:69, 74: a pending setTimeout callback runs processMessageQueue.
TimerFire(t) ==
    /\ BagIn(t, timers)
    /\ t.left = 0
    /\ t.kind \in {"pace", "backoff"}
    /\ timers' = AddTimers(timers (-) One(t), StartedTimers(isReady))
    /\ ProcessMessageQueue(isReady)
    /\ HistTimerStart(t, ~DrainIsNoop(isReady, messageQueue))
    /\ UNCHANGED <<budget, token, connVars, isReady, readyEvents, intervals, pc,
                   graceLeft, ret, enq, delivered, abandoned, fault>>

\* discord-bot.ts:197-201
\* The test of forceProcessQueue, inverted.
ForceDrainsWhenNotReady == ~isReady

\* discord-bot.ts:198: if (isReady)
ForceDrains == isReady

ForceProcessQueue ==
    /\ IF ForceDrains
       THEN ProcessMessageQueue(isReady)
       ELSE UNCHANGED <<messageQueue, passes, attempts, embed>>
    /\ timers' = IF ForceDrains THEN AddTimers(timers, StartedTimers(isReady))
                  ELSE timers
    /\ HistOutside(ForceDrains /\ ~DrainIsNoop(isReady, messageQueue))
    /\ UNCHANGED <<budget, token, connVars, isReady, readyEvents,
                   intervals, pc, graceLeft, ret, enq, delivered, abandoned, fault>>

\* ------------------------------------------------------------ getBotStatus
\* The report, with the ready flag in the place of the client test.
BotStatusFromReady ==
    [initialized |-> isReady,
     ready       |-> isReady,
     queueLength |-> Len(messageQueue),
     user        |-> IF client /\ readyEvents > 0 THEN "tag" ELSE "null"]

\* discord-bot.ts:189-194: the object getBotStatus returns. client.user is
\* set when the gateway has answered, so the tag is known from the first
\* 'ready' event on.
BotStatus ==
    [initialized |-> client,
     ready       |-> isReady,
     queueLength |-> Len(messageQueue),
     user        |-> IF client /\ readyEvents > 0 THEN "tag" ELSE "null"]

\* discord-bot.ts:188-195: getBotStatus reads and assigns nothing.
GetBotStatus ==
    /\ BotStatus \in [initialized : BOOLEAN, ready : BOOLEAN,
                      queueLength : Nat, user : {"tag", "null"}]
    /\ UNCHANGED vars

\* ------------------------------------------------------ the client's events
\* discord-bot.ts:24-34: the 'ready' handler.
OnReady ==
    /\ client /\ handlers > 0 /\ logins > 0
    /\ login = "pending"
    /\ readyEvents < MaxReady
    /\ readyEvents' = readyEvents + 1
    /\ isReady' = TRUE
    /\ ProcessMessageQueue(TRUE)
    /\ timers' = AddTimers(timers, StartedTimers(TRUE))
    /\ intervals' = intervals (+) One(Ticks(DrainIntervalMs))
    /\ UNCHANGED <<budget, hist, token, connVars, pc, graceLeft, ret, enq,
                   delivered, abandoned, fault>>

\* discord-bot.ts:46: the promise of client.login rejects (invalid token,
\* gateway not reachable).  The call is not awaited and has no catch, and the
\* try block of lines 23-49 catches synchronous throws only: the rejection
\* leaves the module unhandled.  No 'ready' event follows a rejected login,
\* and a login does not reject once 'ready' has been emitted.
LoginRejects ==
    /\ login = "pending"
    /\ readyEvents = 0
    /\ login' = "rejected"
    /\ fault' = TRUE
    /\ UNCHANGED <<embed, budget, hist, token, client, sessions, logins,
                   handlers, isReady, readyEvents, messageQueue, passes,
                   timers, intervals, pc, graceLeft, ret, attempts, enq,
                   delivered, abandoned>>

\* discord-bot.ts:36-39: the 'error' handler.
OnError ==
    /\ client /\ handlers > 0
    /\ isReady' = FALSE
    /\ UNCHANGED <<embed, budget, hist, token, connVars, readyEvents, messageQueue, passes, timers,
                   intervals, pc, graceLeft, ret, attempts, enq, delivered,
                   abandoned, fault>>

\* discord-bot.ts:41-44: the 'disconnect' handler.
OnDisconnect ==
    /\ client /\ handlers > 0
    /\ isReady' = FALSE
    /\ UNCHANGED <<embed, budget, hist, token, connVars, readyEvents, messageQueue, passes, timers,
                   intervals, pc, graceLeft, ret, attempts, enq, delivered,
                   abandoned, fault>>

\* discord-bot.ts:28-33: one firing of the recurring timer, which stays armed.
\* The interval callback never drains.
IntervalDrainsNever == FALSE

\* The test of the interval callback, with the flag inverted.
IntervalDrainsWhenNotReady == ~isReady /\ Len(messageQueue) > 0

\* discord-bot.ts:29: if (isReady && messageQueue.length > 0)
IntervalDrains == isReady /\ Len(messageQueue) > 0

IntervalFire ==
    /\ BagIn(0, intervals)
    /\ intervals' = (intervals (-) One(0)) (+) One(Ticks(DrainIntervalMs))
    /\ IF IntervalDrains
       THEN ProcessMessageQueue(isReady)
       ELSE UNCHANGED <<messageQueue, passes, attempts, embed>>
    /\ timers' = IF IntervalDrains THEN AddTimers(timers, StartedTimers(isReady))
                  ELSE timers
    /\ HistOutside(IntervalDrains)
    /\ UNCHANGED <<budget, token, connVars, isReady, readyEvents, pc,
                   graceLeft, ret, enq, delivered, abandoned, fault>>

\* ------------------------------------------------------- sendDirectMessage
\* discord-bot.ts:173-180: the readiness test and what follows it at once.
Decide(i) ==
    IF ~isReady
    THEN /\ messageQueue' = Enqueue(messageQueue, Item(i))
         /\ enq' = [enq EXCEPT ![i] = "direct"]
         /\ pc' = [pc EXCEPT ![i] = "done"]
         /\ ret' = [ret EXCEPT ![i] = "undefined"]
         /\ attempts' = attempts
         /\ timers' = timers
         /\ embed' = embed
         /\ HistEnqueue(i)
    ELSE /\ pc' = [pc EXCEPT ![i] = "fetch"]
         /\ attempts' = [attempts EXCEPT ![i] = @ + 1]
         /\ ComposeEmbed(i)
         /\ timers' = AddTimers(timers, LegTimers("fetch", ImmKey(i)))
         /\ UNCHANGED <<messageQueue, enq, ret, hist>>

\* discord-bot.ts:166-180: a call of sendDirectMessage up to its first await
\* or its return.  Calls are numbered in the order they are made.
SendDirectMessage(i) ==
    /\ pc[i] = "new"
    /\ i <= budget.calls
    /\ \A j \in Ids : j < i => pc[j] # "new"
    /\ IF ~client
       THEN /\ InitializeDiscordBot
            /\ pc' = [pc EXCEPT ![i] = "grace"]
            /\ graceLeft' = [graceLeft EXCEPT ![i] = Ticks(GraceDelayMs)]
            /\ UNCHANGED <<messageQueue, enq, ret, attempts, hist, timers, embed>>
       ELSE /\ Decide(i)
            /\ UNCHANGED <<connVars, graceLeft>>
    /\ UNCHANGED <<budget, token, isReady, readyEvents, passes, intervals,
                   delivered, abandoned, fault>>

\* discord-bot.ts:170-180: the grace timer of a call ran out.
GraceOver(i) ==
    /\ pc[i] = "grace"
    /\ graceLeft[i] = 0
    /\ Decide(i)
    /\ UNCHANGED <<budget, token, connVars, isReady, readyEvents, passes,
                   intervals, graceLeft, delivered, abandoned, fault>>

\* Mutation of DispatchCatches: the immediate send is not inside a try block.
DispatchDoesNotCatch == FALSE

\* discord-bot.ts:179-185: the try/catch around the immediate send.
DispatchCatches == TRUE

\* discord-bot.ts:131-148: the first leg of the immediate send resolves.
ImmFetchOk(i) ==
    /\ pc[i] = "fetch"
    /\ pc' = [pc EXCEPT ![i] = "send"]
    /\ timers' = AddTimers(Settled(timers, "fetch", ImmKey(i)),
                            LegTimers("send", ImmKey(i)))
    /\ UNCHANGED <<embed, budget, hist, token, connVars, isReady, readyEvents,
                   messageQueue, passes, intervals, graceLeft, ret, attempts, enq,
                   delivered, abandoned, fault>>

\* discord-bot.ts:180, 186: the immediate send resolved.
ImmOk(i) ==
    /\ pc[i] = "send"
    /\ pc' = [pc EXCEPT ![i] = "done"]
    /\ ret' = [ret EXCEPT ![i] = "undefined"]
    /\ delivered' = Append(delivered, i)
    /\ timers' = Settled(timers, "send", ImmKey(i))
    /\ UNCHANGED <<embed, budget, hist, token, connVars, isReady, readyEvents,
                   messageQueue, passes, intervals, graceLeft, attempts, enq,
                   abandoned, fault>>

\* discord-bot.ts:181-185: the catch block of sendDirectMessage.
ImmRejected(i, base) ==
    /\ pc' = [pc EXCEPT ![i] = "done"]
    /\ timers' = base
    /\ IF DispatchCatches
       THEN /\ messageQueue' = Enqueue(messageQueue, Item(i))
            /\ enq' = [enq EXCEPT ![i] = "afterfail"]
            /\ ret' = [ret EXCEPT ![i] = "undefined"]
            /\ HistEnqueue(i)
       ELSE /\ ret' = [ret EXCEPT ![i] = "rejected"]
            /\ UNCHANGED <<messageQueue, enq, hist>>
    /\ UNCHANGED <<embed, budget, token, connVars, isReady, readyEvents, passes,
                   intervals, graceLeft, attempts, delivered, abandoned, fault>>

\* discord-bot.ts:181-185: the immediate send rejected with `cause`.
ImmFail(i, cause) ==
    /\ pc[i] \in {"fetch", "send"}
    /\ MayFailWith(pc[i], cause)
    /\ ImmRejected(i, Settled(timers, pc[i], ImmKey(i)))

\* discord-bot.ts:133-136, 144-147: the timeout of a pending leg runs out:
\* the race rejects and the attempt has failed.
TimeoutFire(t) ==
    /\ BagIn(t, timers)
    /\ t.left = 0
    /\ t.kind \in {"fetch", "send"}
    /\ MayFail
    /\ \/ \E p \in passes :
             /\ PassKey(p.id, p.retries) = t.id /\ p.leg = t.kind
             /\ PassRejected(p, timers (-) One(t))
       \/ \E i \in Ids :
             /\ ImmKey(i) = t.id /\ pc[i] = t.kind
             /\ ImmRejected(i, timers (-) One(t))

\* discord-bot.ts:8-50: call i is a direct call of the exported
\* initializeDiscordBot.  What the call found is kept in pc[i].
Initialize(i) ==
    /\ pc[i] = "new"
    /\ i <= budget.calls
    /\ \A j \in Ids : j < i => pc[j] # "new"
    /\ InitializeDiscordBot
    /\ pc' = [pc EXCEPT ![i] = IF ~token THEN "init_notoken"
                               ELSE IF client THEN "init_noop" ELSE "init_created"]
    /\ ret' = [ret EXCEPT ![i] = "undefined"]
    /\ UNCHANGED <<embed, budget, hist, token, isReady, readyEvents, messageQueue, passes, timers,
                   intervals, graceLeft, attempts, enq, delivered, abandoned, fault>>

\* ------------------------------------------------------------------- time
TimerDue ==
    \/ \E t \in BagToSet(timers) : t.left = 0
    \/ BagIn(0, intervals)
    \/ \E i \in Ids : pc[i] = "grace" /\ graceLeft[i] = 0

\* Ticks left of every armed timer: setTimeout drains, setIntervals, grace waits.
PendingLefts ==
    {t.left : t \in BagToSet(timers)} \cup BagToSet(intervals)
        \cup {graceLeft[i] : i \in {j \in Ids : pc[j] = "grace"}}

TickBag(b, d) ==
    [t \in {[e EXCEPT !.left = @ - d] : e \in BagToSet(b)}
        |-> b[[t EXCEPT !.left = @ + d]]]

TickInts(b, d) == [n \in {e - d : e \in BagToSet(b)} |-> b[n + d]]

\* One tick passes while a timer is armed (with none armed the state keeps
\* no time).  The event loop runs a due timer before the clock advances
\* further.
Tick ==
    /\ ~TimerDue
    /\ PendingLefts # {}
    /\ timers' = TickBag(timers, 1)
    /\ intervals' = TickInts(intervals, 1)
    /\ graceLeft' = [i \in Ids |-> IF pc[i] = "grace" THEN graceLeft[i] - 1
                                   ELSE graceLeft[i]]
    /\ HistTick
    /\ UNCHANGED <<embed, budget, token, connVars, isReady, readyEvents, messageQueue, passes,
                   pc, ret, attempts, enq, delivered, abandoned, fault>>

Next ==
    \/ \E i \in Ids : Initialize(i)
    \/ \E i \in Ids : SendDirectMessage(i)
    \/ \E i \in Ids : GraceOver(i)
    \/ \E i \in Ids : ImmFetchOk(i)
    \/ \E i \in Ids : ImmOk(i)
    \/ \E i \in Ids : \E c \in FetchCauses \cup SendCauses : ImmFail(i, c)
    \/ OnReady
    \/ OnError
    \/ OnDisconnect
    \/ IntervalFire
    \/ \E t \in BagToSet(timers) : TimerFire(t)
    \/ ForceProcessQueue
    \/ GetBotStatus
    \/ LoginRejects
    \/ \E p \in passes : PassFetchOk(p)
    \/ \E p \in passes : PassOk(p)
    \/ \E p \in passes : \E c \in FetchCauses \cup SendCauses : PassFail(p, c)
    \/ Tick

Spec == Init /\ [][Next]_vars

\* The runs that keep the history of the queue order.
SpecTrace == InitTrace /\ [][Next]_vars

\* The runs that keep the history of the timer-started sends.
SpecPaced == InitPaced /\ [][Next]_vars

\* The runs with the send timeouts as timers.
NextClocked ==
    \/ Next
    \/ \E t \in BagToSet(timers) : TimeoutFire(t)

SpecClocked == InitClocked /\ [][NextClocked]_vars

\* The runs that vary the arguments of the calls and the clock.
SpecCompose == InitCompose /\ [][Next]_vars

\* What the event loop and the network guarantee: time passes, a due timer
\* callback runs, and every awaited send settles (each leg races a 10000 ms
\* timeout, lines 132-148).
PassSettles(i) ==
    \E p \in passes :
        /\ p.id = i
        /\ \/ PassFetchOk(p)
           \/ PassOk(p)
           \/ \E c \in FetchCauses \cup SendCauses : PassFail(p, c)

ImmSettles(i) ==
    \/ ImmFetchOk(i)
    \/ ImmOk(i)
    \/ \E c \in FetchCauses \cup SendCauses : ImmFail(i, c)

\* The process runs on: no error has left the module unhandled.  After an
\* unhandled rejection Node ends the process (the default) or, where the
\* host listens for 'unhandledRejection', goes on; nothing is required of a
\* run from there.
Alive == ~fault

Fairness ==
    /\ WF_vars(Alive /\ Tick)
    /\ WF_vars(Alive /\ IntervalFire)
    /\ WF_vars(Alive /\ \E t \in BagToSet(timers) : TimerFire(t))
    /\ \A i \in Ids : WF_vars(Alive /\ GraceOver(i))
    /\ \A i \in Ids : WF_vars(Alive /\ ImmSettles(i))
    /\ \A i \in Ids : WF_vars(Alive /\ PassSettles(i))

\* The runs checked for progress.
SpecLive == InitLive /\ [][Next]_vars /\ Fairness

\* ------------------------------------------------------------------ claims
DeliveredIds == {delivered[k] : k \in 1..Len(delivered)}

\* What a caller reads as "delivered" from the settled promise of call i.
ReportsDelivered(i) == ret[i] = "true"

\* The step lets call i of sendDirectMessage pass its readiness test.
Decides(i) ==
    \/ pc[i] = "grace" /\ pc'[i] # "grace"
    \/ pc[i] = "new" /\ pc'[i] \in {"fetch", "done"}

\* The step is the end of pass p with a failed send: the pass is gone and
\* nothing was delivered.
PassFailed(p) ==
    /\ p \in passes
    /\ p.id \notin {q.id : q \in passes'}
    /\ delivered' = delivered

BackoffTimers(b) == {t \in BagToSet(b) : t.kind = "backoff"}

\* C1: the retry engine never has more than one send attempt in flight,
\* whatever drain triggers fire while a pass awaits its send.
C1_OneSendInFlight == Cardinality(passes) <= 1

\* C2: a notification that was abandoned was attempted exactly 4 times in
\* total (1 initial attempt + 3 retries), the attempts of sendDirectMessage and
\* of the drain passes counted together.
C2_FourAttempts == \A i \in abandoned : attempts[i] = MaxRetries + 1

\* C3: without a token the subsystem is inert: no session, no send attempt and
\* no queued item, after any number of calls.
C3_InertWithoutToken ==
    ~token => /\ ~client /\ sessions = 0
              /\ \A i \in Ids : attempts[i] = 0
              /\ Len(messageQueue) = 0

\* C4: a call that finds isReady false at its readiness test starts no send,
\* appends exactly one item with retries = 0 at the tail of the queue, leaves
\* the queued items as they are, and returns without reporting a delivery.
C4_ReadinessGating ==
    [][\A i \in Ids : (Decides(i) /\ ~isReady) =>
          /\ messageQueue' = messageQueue \o <<[id |-> i, retries |-> 0]>>
          /\ attempts' = attempts
          /\ passes' = passes
          /\ pc'[i] = "done"
          /\ ~ReportsDelivered(i)']_vars

\* C4 witness: a call made while not ready has put its item, never attempted,
\* behind an item that was queued before it.
C4_Witness ==
    \E i \in Ids :
        /\ enq[i] = "direct" /\ pc[i] = "done" /\ attempts[i] = 0
        /\ Len(messageQueue) >= 2
        /\ messageQueue[Len(messageQueue)] = [id |-> i, retries |-> 0]

\* C5: a call whose immediate send succeeded returns delivered = true, a call
\* whose immediate send failed returns delivered = false.
C5_ImmediateOutcomeReported ==
    \A i \in Ids :
        /\ (pc[i] = "done" /\ enq[i] = "no" /\ i \in DeliveredIds) => ReportsDelivered(i)
        /\ (pc[i] = "done" /\ enq[i] = "afterfail") => ~ReportsDelivered(i)

\* C6: no error escapes: no call of sendDirectMessage rejects, no drain pass
\* ends in an unhandled error, and a notification whose send failed is queued,
\* held by a pass, delivered or abandoned.
C6_NoFault ==
    /\ ~fault
    /\ \A i \in Ids : ret[i] # "rejected"
    /\ \A i \in Ids : (pc[i] = "done" /\ i \notin DeliveredIds) =>
          i \in QueueIds \cup PassIds \cup abandoned

\* C6 witness: a notification failed its immediate send and every queue
\* attempt, was abandoned, and its call had returned normally.
C6_Witness ==
    \E i \in abandoned : enq[i] = "afterfail" /\ ret[i] = "undefined" /\ ~fault

\* C7: once a session exists no step creates a session, starts a login or
\* registers handlers, and the session handle is never cleared.
C7_IdempotentInitialization ==
    [][client => /\ client'
                 /\ sessions' = sessions
                 /\ logins' = logins
                 /\ handlers' = handlers]_vars

\* C7 witness: initializeDiscordBot was called with a session present and
\* isReady false after an error or disconnect, and there is still one session.
C7_Witness ==
    /\ \E i \in Ids : pc[i] = "init_noop"
    /\ client /\ ~isReady /\ readyEvents > 0
    /\ sessions = 1 /\ logins = 1 /\ handlers = 1

\* C8: as long as no send attempt has failed, notifications are delivered in
\* the order in which their calls were made.
C8_FifoWithoutFailures ==
    SumFailures(Ids) = 0 =>
        \A k, l \in 1..Len(delivered) : k < l => delivered[k] < delivered[l]

\* C9: a retry of a queued item never starts before the backoff delay of its
\* last failure (5000 ms times its retry count) has passed.  Stated for the
\* retries started by the timers the passes arm themselves (the 1000 ms
\* follow-up and the backoff drains), leaving aside forceProcessQueue.
C9_BackoffRespected ==
    [][\A t \in BagToSet(timers) :
          (/\ t.left = 0
           /\ timers' = timers (-) One(t)
           /\ Len(messageQueue) > 0
           /\ messageQueue' = Tail(messageQueue)
           /\ Head(messageQueue).id \in {q.id : q \in passes'})
          => ~BackoffRunning(Head(messageQueue), timers (-) One(t))]_vars

\* C10: a failed queue attempt with retries < 3 puts the item back at the head
\* with retries = N incremented and arms a backoff drain of exactly 5000 * N ms
\* (next to the 1000 ms follow-up); with retries = 3 it arms no backoff drain.
C10_BackoffSchedule ==
    [][\A p \in passes : PassFailed(p) =>
          IF p.retries < 3
          THEN /\ Len(messageQueue') = Len(messageQueue) + 1
               /\ Head(messageQueue') = [id |-> p.id, retries |-> p.retries + 1]
               /\ timers' = timers
                    (+) One([kind |-> "backoff", delay |-> 5000 * (p.retries + 1),
                             left |-> 5 * (p.retries + 1), id |-> p.id])
                    (+) One([kind |-> "pace", delay |-> 1000, left |-> 1, id |-> 0])
          ELSE /\ BackoffTimers(timers') = BackoffTimers(timers)
               /\ \A t \in BackoffTimers(timers) :
                     CopiesIn(t, timers') = CopiesIn(t, timers)]_vars

\* C10 witness: the third failure of an item has just armed a 15000 ms drain and
\* the item is back at the head of the queue with retries = 3.
C10_Witness ==
    /\ Len(messageQueue) > 0
    /\ Head(messageQueue).retries = 3
    /\ \E t \in BagToSet(timers) :
          /\ t.kind = "backoff" /\ t.id = Head(messageQueue).id
          /\ t.delay = 15000 /\ t.left = 15

\* No setTimeout that runs processMessageQueue is armed or consumed.
NoDrainTimerChange ==
    \A t \in BagToSet(timers) \cup BagToSet(timers') :
        t.kind \in {"pace", "backoff"} => CopiesIn(t, timers') = CopiesIn(t, timers)

\* What one drain pass started from outside a pass does to the queue: nothing
\* when the pass is a no-op, and otherwise the head leaves the queue and its
\* send is started.
OnePassStarted ==
    IF DrainIsNoop(isReady, messageQueue)
    THEN UNCHANGED <<messageQueue, passes, attempts>>
    ELSE /\ messageQueue' = Tail(messageQueue)
         /\ passes' = passes \cup {[id |-> Head(messageQueue).id,
                                     retries |-> Head(messageQueue).retries,
                                     leg |-> "fetch"]}
         /\ attempts' = [attempts EXCEPT ![Head(messageQueue).id] = @ + 1]

\* C12: forceProcessQueue can always be called; when isReady is false it
\* changes nothing at all (no send started, no timer armed, queue, client and
\* flag as before); when isReady is true it runs one drain pass (the head is
\* taken and its send started, or nothing when the queue is empty), arms no
\* drain and changes neither the client nor the flag nor the interval.
C12_ForceDrain ==
    /\ ENABLED ForceProcessQueue
    /\ ~isReady => ~ENABLED (ForceProcessQueue /\ vars' # vars)
    /\ isReady =>
          ~ENABLED (/\ ForceProcessQueue
                    /\ ~(/\ OnePassStarted
                         /\ NoDrainTimerChange
                         /\ UNCHANGED <<connVars, isReady, intervals>>))

\* C12: the bot is ready with an item queued behind a send in flight, and
\* the call starts a second send.
C12_Witness ==
    /\ isReady /\ Len(messageQueue) > 0 /\ passes # {}
    /\ ENABLED (ForceProcessQueue /\ Cardinality(passes') = Cardinality(passes) + 1)

\* C13: getBotStatus changes no variable (client, flag, queue, timers and
\* interval included) and reports initialized = a client has been created,
\* ready = isReady and queueLength = the number of queued items.
C13_StatusIsPure ==
    /\ ENABLED GetBotStatus
    /\ ~ENABLED (GetBotStatus /\ vars' # vars)
    /\ BotStatus.initialized = (sessions > 0)
    /\ BotStatus.ready = isReady
    /\ BotStatus.queueLength = Cardinality(QueueIds)

\* C13: a report that tells the three fields apart: a client exists, the bot
\* is not ready, two items are queued and a timer is pending.
C13_Witness ==
    /\ BotStatus.initialized /\ ~BotStatus.ready /\ BotStatus.queueLength = 2
    /\ timers # EmptyBag

FieldNames(e) == {e.fields[k].name : k \in 1..Len(e.fields)}

\* What C14 says of color, body and the informational field.
ColorBodyInfo(c) ==
    /\ c.payload.color = (IF c.status = "approved" THEN "#00FF00" ELSE "#FF0000")
    /\ c.payload.description =
          (IF c.status = "approved" THEN "... has been **ACCEPTED**! ..."
           ELSE "... has been **DENIED** at this time. ...")
    /\ ("Important Information" \in FieldNames(c.payload)) <=> (c.status = "approved")

\* What C14 says of the extra field, `present` being what counts as a reason
\* that is present.
ExtraField(c, present) ==
    LET extra == FieldNames(c.payload) \cap {"Staff Note", "Reason"} IN
    IF present
    THEN extra = {IF c.status = "approved" THEN "Staff Note" ELSE "Reason"}
    ELSE extra = {}

\* C14 as stated: green for approved and red for denied, the approval or the
\* denial text, the extra field exactly when a reason is given ("Staff Note"
\* for approved, "Reason" for denied), the informational field exactly when
\* approved.
C14_ComposerMapping ==
    \A k \in 1..Len(embed) :
        ColorBodyInfo(embed[k]) /\ ExtraField(embed[k], embed[k].reason.given)

\* C14 amended: the same, with the extra field exactly when the reason is a
\* non-empty string (an empty reason adds no field).
C14_ComposerMappingNonEmpty ==
    \A k \in 1..Len(embed) :
        /\ ColorBodyInfo(embed[k])
        /\ ExtraField(embed[k], embed[k].reason.given /\ embed[k].reason.text # <<>>)

\* C14: an approval composed with a reason: four fields, the note before the
\* informational field.
C14_Witness ==
    /\ Len(embed) = 1
    /\ embed[1].status = "approved" /\ embed[1].reason.text = <<"a", "b">>
    /\ Len(embed[1].payload.fields) = 4
    /\ embed[1].payload.fields[3].name = "Staff Note"
    /\ embed[1].payload.fields[4].name = "Important Information"

NothingTaken == UNCHANGED <<messageQueue, passes, attempts>>

HeadTaken ==
    /\ Len(messageQueue) > 0
    /\ messageQueue' = Tail(messageQueue)
    /\ passes' = passes \cup {[id |-> Head(messageQueue).id,
                                retries |-> Head(messageQueue).retries,
                                leg |-> "fetch"]}
    /\ attempts' = [attempts EXCEPT ![Head(messageQueue).id] = @ + 1]

Terminal == DeliveredIds \cup abandoned

\* C11: (a) in a step after which isReady is false, every queued item with
\* retries = 0 stays in the queue as it is; (b) in every run in which isReady
\* is true from some point on, every item that is in the queue is later
\* delivered or abandoned, and from some point on the queue is empty.
C11_EventualDrain ==
    /\ [][~isReady' =>
            \A k \in 1..Len(messageQueue) :
                messageQueue[k].retries = 0 =>
                    \E l \in 1..Len(messageQueue') :
                        messageQueue'[l] = messageQueue[k]]_vars
    /\ <>[]isReady =>
          /\ \A i \in Ids : [](i \in QueueIds => <>(i \in Terminal))
          /\ <>[](Len(messageQueue) = 0)

\* C11: an item queued while the bot was not ready has been abandoned after
\* the retries, the bot being ready and the queue empty again.
C11_Witness ==
    /\ isReady /\ Len(messageQueue) = 0 /\ passes = {}
    /\ \E i \in abandoned : enq[i] = "direct"

\* The place of notification i in the order of first entry into the queue.
OrderPos(i) == CHOOSE n \in 1..Len(hist.order) : hist.order[n] = i

\* C15: two items that are both in the queue stand in the order in which
\* they first entered it: the one enqueued first is never behind the other.
C15_HeadReinsertionKeepsOrder ==
    \A k \in 1..Len(messageQueue) : \A l \in 1..Len(messageQueue) :
        k < l => OrderPos(messageQueue[k].id) < OrderPos(messageQueue[l].id)

\* C16: as long as neither forceProcessQueue nor the interval has started a
\* send, no two sends are started by setTimeout callbacks of the passes less
\* than 1000 ms apart.
C16_PacedStarts == ~hist.outside => ~hist.close

\* C17: the 'ready' handler sets isReady, runs one drain pass at once (the
\* head is taken when the queue is not empty) and arms an interval of
\* 30000 ms; every firing of the interval re-arms it and runs a drain pass
\* exactly when isReady holds and the queue is not empty, and does nothing
\* else; as long as no 'ready' event has been handled no pass is in flight.
C17_ReadyAndInterval ==
    [][/\ readyEvents' = readyEvents + 1 =>
            /\ isReady'
            /\ IF Len(messageQueue) > 0 THEN HeadTaken ELSE NothingTaken
            /\ intervals' = intervals (+) One(30)
            /\ NoDrainTimerChange
       /\ (BagIn(0, intervals) /\ intervals' # intervals
              /\ readyEvents' = readyEvents) =>
            /\ intervals' = (intervals (-) One(0)) (+) One(30)
            /\ IF isReady /\ Len(messageQueue) > 0 THEN HeadTaken ELSE NothingTaken
            /\ NoDrainTimerChange
            /\ UNCHANGED <<isReady, connVars>>
       /\ readyEvents' = 0 => passes' = {} /\ ~isReady']_vars

\* C17: the interval is due while the bot is ready and an item waits with no
\* pass in flight and no timeout pending: only the interval can start its send.
C17_Witness ==
    /\ BagIn(0, intervals) /\ isReady
    /\ Len(messageQueue) > 0 /\ passes = {} /\ timers = EmptyBag
    /\ ENABLED (IntervalFire /\ passes' # {})

\* C18: a step that takes isReady from true to false changes nothing else;
\* a pass that ends while isReady is false has delivered its item, put it
\* back at the head with retries + 1, or (at retries = 3) abandoned it.
C18_ConnectionLoss ==
    [][/\ (isReady /\ ~isReady') =>
            UNCHANGED <<token, connVars, readyEvents, messageQueue, passes,
                        timers, intervals, pc, graceLeft, ret, attempts, enq,
                        delivered, abandoned, fault>>
       /\ \A p \in passes : (~isReady /\ p.id \notin {q.id : q \in passes'}) =>
            \/ /\ delivered' = Append(delivered, p.id)
               /\ UNCHANGED <<messageQueue, abandoned>>
            \/ /\ p.retries < 3
               /\ messageQueue' = <<[id |-> p.id, retries |-> p.retries + 1]>>
                                      \o messageQueue
               /\ UNCHANGED <<delivered, abandoned>>
            \/ /\ p.retries = 3
               /\ abandoned' = abandoned \cup {p.id}
               /\ UNCHANGED <<delivered, messageQueue>>]_vars

\* C18: the bot has been ready and is not any more; an item has just failed
\* for the second time (its 10000 ms timeout is still whole) and is back at
\* the head.
C18_Witness ==
    /\ ~isReady /\ readyEvents > 0
    /\ Len(messageQueue) > 0 /\ Head(messageQueue).retries = 2
    /\ \E t \in BagToSet(timers) :
          t.kind = "backoff" /\ t.id = Head(messageQueue).id /\ t.left = 10

\* The timeout the pending leg of a send races against.
Deadline(leg, key) == {t \in BagToSet(timers) : t.kind = leg /\ t.id = key}

\* C19: every pending leg has its own timeout of 10000 ms running; a send
\* (queued or immediate) is delivered only from its second leg, which is
\* entered only when the first has resolved, each before its timeout has
\* fired; a failure in the first leg ends the attempt; whatever ends a queued
\* attempt as failed (a timeout or any other cause) puts the item back at
\* the head with retries + 1 and arms the two timers, or abandons it at
\* retries = 3; whatever ends an immediate attempt as failed appends it with
\* retries = 0; and every cause gives the step a transport error gives.
C19_UniformFailure ==
    [][/\ \A p \in passes :
            /\ \E t \in Deadline(p.leg, PassKey(p.id, p.retries)) :
                  t.delay = 10000 /\ t.left <= 10
            /\ (p.id \notin {q.id : q \in passes'} /\ delivered' # delivered)
                  => p.leg = "send"
            /\ p.leg = "fetch" =>
                  \/ p \in passes'
                  \/ [p EXCEPT !.leg = "send"] \in passes'
                  \/ PassFailed(p)
            /\ PassFailed(p) =>
                  IF p.retries < 3
                  THEN /\ messageQueue' = <<[id |-> p.id, retries |-> p.retries + 1]>>
                                             \o messageQueue
                       /\ \E t \in BagToSet(timers') :
                             /\ t.kind = "backoff" /\ t.id = p.id
                             /\ t.left = 5 * (p.retries + 1)
                       /\ abandoned' = abandoned
                  ELSE /\ abandoned' = abandoned \cup {p.id}
                       /\ messageQueue' = messageQueue
            /\ \A c \in FetchCauses \cup SendCauses :
                  PassFail(p, c) => PassFail(p, "Transport")
       /\ \A i \in Ids :
            /\ pc[i] \in {"fetch", "send"} =>
                  \E t \in Deadline(pc[i], ImmKey(i)) : t.delay = 10000 /\ t.left <= 10
            /\ (pc[i] \in {"fetch", "send"} /\ pc'[i] = "done") =>
                  \/ pc[i] = "send" /\ delivered' = Append(delivered, i)
                                    /\ messageQueue' = messageQueue
                  \/ /\ delivered' = delivered
                     /\ messageQueue' = Append(messageQueue, [id |-> i, retries |-> 0])
            /\ \A c \in FetchCauses \cup SendCauses :
                  ImmFail(i, c) => ImmFail(i, "Transport")]_vars

\* C19: the recipient of a retried item has been resolved and the timeout of
\* its transmission is due while the transmission is still pending.
C19_Witness ==
    \E p \in passes :
        /\ p.leg = "send" /\ p.retries > 0
        /\ \E t \in Deadline("send", PassKey(p.id, p.retries)) : t.left = 0

\* C20: the retries of every queued item is the number of send attempts
\* made for it so far.
C20_RetriesCountAttempts ==
    \A k \in 1..Len(messageQueue) :
        messageQueue[k].retries = attempts[messageQueue[k].id]

\* The places a notification can be in, counted.
QueueCount(i) == Cardinality({k \in 1..Len(messageQueue) : messageQueue[k].id = i})
PassCount(i) == Cardinality({p \in passes : p.id = i})
DeliveredCount(i) == Cardinality({k \in 1..Len(delivered) : delivered[k] = i})
AbandonedCount(i) == IF i \in abandoned THEN 1 ELSE 0

\* C21: every notification sendDirectMessage has pushed (lines 175, 183) is
\* in exactly one place: once in messageQueue, held by one pass between its
\* shift and the end of its await, delivered once, or given up; it is never
\* in two places, never twice in one, and never in none.  A notification
\* that was not pushed is in none of them, or was delivered once by the
\* immediate send.  "Delivered" is the resolution of the awaited send.
C21_SingleOwnership ==
    \A i \in Ids :
        IF enq[i] # "no"
        THEN QueueCount(i) + PassCount(i) + DeliveredCount(i) + AbandonedCount(i) = 1
        ELSE /\ QueueCount(i) = 0 /\ PassCount(i) = 0 /\ AbandonedCount(i) = 0
             /\ DeliveredCount(i) <= 1

\* One pushed notification has been delivered from the queue and the other,
\* pushed after its immediate send failed and put back after a failed pass,
\* is held by a pass again.
C21_Witness ==
    \E i, j \in Ids :
        /\ i \in DeliveredIds /\ enq[i] # "no"
        /\ enq[j] = "afterfail" /\ PassCount(j) = 1 /\ QueueCount(j) = 0
        /\ \E p \in passes : p.id = j /\ p.retries = 1

\* The step consumes the due setTimeout t that runs processMessageQueue.
DrainTimerConsumed(t) ==
    /\ BagIn(t, timers)
    /\ t.kind \in {"pace", "backoff"}
    /\ t.left = 0
    /\ CopiesIn(t, timers') < CopiesIn(t, timers)

\* C22: a step that starts a send attempt (the immediate one or one of a
\* pass) is taken with a client and with isReady true when the attempt
\* starts (the ready handler sets the flag before it drains); a setTimeout
\* callback that runs processMessageQueue while isReady is false only
\* consumes its timer: the queue, the passes and the attempts are unchanged
\* and no timer is armed.
C22_SendsOnlyWhenReady ==
    [][/\ attempts' # attempts => client /\ isReady'
       /\ \A t \in BagToSet(timers) :
             DrainTimerConsumed(t) /\ ~isReady =>
                /\ timers' = timers (-) One(t)
                /\ UNCHANGED <<messageQueue, passes, attempts, intervals,
                               isReady, delivered, abandoned>>]_vars

\* The timers of a failed pass have all run while isReady was false: the
\* failed item is still at the head, nothing is in flight, no timer is left.
C22_Witness ==
    /\ ~isReady /\ readyEvents > 0 /\ client
    /\ Len(messageQueue) > 0 /\ Head(messageQueue).retries > 0
    /\ passes = {} /\ timers = EmptyBag

\* The retries of notification i, wherever the object is.
RetriesIn(queue, ps, i) ==
    {queue[k].retries : k \in {n \in 1..Len(queue) : queue[n].id = i}}
        \cup {p.retries : p \in {q \in ps : q.id = i}}

RetriesInRange(queue, ps) ==
    \A i \in Ids : RetriesIn(queue, ps, i) \subseteq 0..MaxRetries

\* C23: the retries of every queued item and of every item held by a pass is
\* in 0..3; a new item has retries 0; retries changes only by +1, only in a
\* step that ends a pass of the item with a failed send, and only from a value
\* below 3.
C23_RetriesBounded ==
    [][/\ RetriesInRange(messageQueue', passes')
       /\ \A i \in Ids :
             /\ RetriesIn(messageQueue, passes, i) = {} =>
                    RetriesIn(messageQueue', passes', i) \subseteq {0}
             /\ \A r \in RetriesIn(messageQueue, passes, i) :
                \A r2 \in RetriesIn(messageQueue', passes', i) :
                   \/ r2 = r
                   \/ /\ r2 = r + 1
                      /\ r < MaxRetries
                      /\ \E p \in passes :
                            p.id = i /\ p.retries = r /\ PassFailed(p)]_vars

\* An item pushed after its immediate send failed is held by a pass at
\* retries = 3, three passes having failed.
C23_Witness ==
    \E p \in passes :
        p.retries = MaxRetries /\ enq[p.id] = "afterfail" /\ attempts[p.id] = 5

====
